---- MODULE Spec2Model ----
(***************************************************************************)
(* Model of AliyunOssArtifactRepository                                    *)
(* (src/aliyunstoreplugin/store/artifact/aliyun_oss_artifact_repo.py).     *)
(*                                                                         *)
(* Python strings are sequences of one-character strings, so that the      *)
(* library functions the repository calls (urlparse, posixpath.join,       *)
(* posixpath.relpath, os.path.basename, str.startswith, sorted) are        *)
(* computed character by character, as the library computes them.          *)
(***************************************************************************)
EXTENDS Integers, Sequences, FiniteSets, TLC

\* self       the repository instance: artifact_uri, auth, oss_endpoint_url,
\*            oss_bucket (the memoized handle, or None)
\* nconstruct how many handles oss2.Bucket(...) has built for this instance
\* store      the remote objects: records [bucket, key, data]
\* os_sep     the host's os.sep
\* last       the last call of a method: its arguments, the storage calls it
\*            issued, and how it ended
\* nops       how many calls were made
\* pc, held   the position and the locals of each concurrent caller
VARIABLES self, nconstruct, store, os_sep, last, nops, pc, held

vars == <<self, nconstruct, store, os_sep, last, nops, pc, held>>

\* Python's None, where an object is expected.
None == [none |-> TRUE]

\* Python's None, where a string is expected: no string of the model holds a
\* character of more than one letter.
NoneStr == <<"None">>

(***************************************************************************)
(* Strings                                                                 *)
(***************************************************************************)

\* Code points of the characters the model uses (Python compares strings by
\* code point).
ord(c) ==
  CASE c = "#" -> 35 [] c = "." -> 46 [] c = "/" -> 47 [] c = "3" -> 51
    [] c = ":" -> 58 [] c = "?" -> 63 [] c = "O" -> 79 [] c = "S" -> 83
    [] c = "\\" -> 92 [] c = "a" -> 97 [] c = "b" -> 98 [] c = "d" -> 100
    [] c = "f" -> 102 [] c = "g" -> 103 [] c = "k" -> 107 [] c = "o" -> 111
    [] c = "q" -> 113 [] c = "r" -> 114 [] c = "s" -> 115 [] c = "t" -> 116
    [] c = "w" -> 119 [] c = "x" -> 120

\* str.lower() on one character.
lower(c) == IF c = "O" THEN "o" ELSE IF c = "S" THEN "s" ELSE c

\* The characters urllib.parse.scheme_chars holds: letters, digits, "+-.".
scheme_chars == {"3", ".", "O", "S", "a", "b", "d", "f", "g", "k", "o", "q",
                 "r", "s", "t", "w", "x"}

isalpha(c) == c \in scheme_chars \ {"3", "."}

\* s.startswith(p)
startswith(s, p) == Len(p) <= Len(s) /\ SubSeq(s, 1, Len(p)) = p

\* s.endswith(p)
endswith(s, p) ==
  Len(p) <= Len(s) /\ SubSeq(s, Len(s) - Len(p) + 1, Len(s)) = p

\* s[n:] for 0 <= n
drop(s, n) == IF n >= Len(s) THEN <<>> ELSE SubSeq(s, n + 1, Len(s))

\* s.find(c in cs) from 1-based position `from`: the first position holding a
\* character of cs, or 0.
RECURSIVE find(_, _, _)
find(s, cs, from) ==
  IF from > Len(s) THEN 0
  ELSE IF s[from] \in cs THEN from
  ELSE find(s, cs, from + 1)

\* s.rfind(c in cs): the last position holding a character of cs, or 0.
RECURSIVE rfind(_, _, _)
rfind(s, cs, from) ==
  IF from < 1 THEN 0
  ELSE IF s[from] \in cs THEN from
  ELSE rfind(s, cs, from - 1)

\* s.split(sep): the pieces between the occurrences of the character sep.
RECURSIVE split(_, _)
split(s, sep) ==
  LET i == find(s, {sep}, 1)
  IN  IF i = 0 THEN <<s>>
      ELSE <<SubSeq(s, 1, i - 1)>> \o split(drop(s, i), sep)

\* sep.join(parts)
RECURSIVE joinwith(_, _)
joinwith(parts, sep) ==
  IF parts = <<>> THEN <<>>
  ELSE IF Len(parts) = 1 THEN parts[1]
  ELSE parts[1] \o <<sep>> \o joinwith(Tail(parts), sep)

\* a < b on Python strings: lexicographic by code point.
RECURSIVE strless(_, _)
strless(a, b) ==
  IF b = <<>> THEN FALSE
  ELSE IF a = <<>> THEN TRUE
  ELSE IF ord(a[1]) < ord(b[1]) THEN TRUE
  ELSE IF ord(a[1]) > ord(b[1]) THEN FALSE
  ELSE strless(Tail(a), Tail(b))

\* s.replace(a, b) for single characters.
replace(s, a, b) == [i \in 1..Len(s) |-> IF s[i] = a THEN b ELSE s[i]]

(***************************************************************************)
(* urllib.parse.urlparse, for a scheme outside uses_params                 *)
(***************************************************************************)

\* urlsplit's last step: url.split("?", 1).
split_query(scheme, netloc, url, fragment) ==
  LET q == find(url, {"?"}, 1)
  IN  [scheme |-> scheme, netloc |-> netloc,
       path |-> IF q = 0 THEN url ELSE SubSeq(url, 1, q - 1),
       query |-> IF q = 0 THEN <<>> ELSE drop(url, q),
       fragment |-> fragment]

\* url.split("#", 1), then the query.
split_fragment(scheme, netloc, url) ==
  LET h == find(url, {"#"}, 1)
  IN  IF h = 0 THEN split_query(scheme, netloc, url, <<>>)
      ELSE split_query(scheme, netloc, SubSeq(url, 1, h - 1), drop(url, h))

\* _splitnetloc(url, 2) when url begins with "//": the authority runs to the
\* first of "/", "?", "#".
split_netloc(scheme, url) ==
  LET delim == find(url, {"/", "?", "#"}, 3)
  IN  IF ~startswith(url, <<"/", "/">>) THEN split_fragment(scheme, <<>>, url)
      ELSE IF delim = 0 THEN split_fragment(scheme, drop(url, 2), <<>>)
      ELSE split_fragment(scheme, SubSeq(url, 3, delim - 1),
                          drop(url, delim - 1))

\* urlparse(url): the scheme is what precedes the first ":" when it begins
\* with a letter and holds scheme characters only, lower-cased.
urlparse(url) ==
  LET i == find(url, {":"}, 1)
  IN  IF i > 1 /\ isalpha(url[1]) /\ \A j \in 1..(i - 1) : url[j] \in scheme_chars
      THEN split_netloc([j \in 1..(i - 1) |-> lower(url[j])], drop(url, i))
      ELSE split_netloc(<<>>, url)

(***************************************************************************)
(* parse_oss_uri                                                           *)
(***************************************************************************)

\* A mutation of parse_oss_uri: path.lstrip("/") in place of path[1:].
RECURSIVE lstrip_slashes(_)
lstrip_slashes(s) ==
  IF s # <<>> /\ s[1] = "/" THEN lstrip_slashes(Tail(s)) ELSE s

parse_oss_uri_lstrip(uri) ==
  LET parsed == urlparse(uri)
  IN  IF parsed.scheme # <<"o", "s", "s">>
      THEN [err |-> "InvalidURIScheme", bucket |-> <<>>, path |-> <<>>]
      ELSE [err |-> "none", bucket |-> parsed.netloc,
            path |-> lstrip_slashes(parsed.path)]

\* parse_oss_uri(uri): (bucket, path), or the exception "Not an OSS URI".
parse_oss_uri(uri) ==
  LET parsed == urlparse(uri)
      path == parsed.path
  IN  IF parsed.scheme # <<"o", "s", "s">>
      THEN [err |-> "InvalidURIScheme", bucket |-> <<>>, path |-> <<>>]
      ELSE [err |-> "none", bucket |-> parsed.netloc,
            path |-> IF startswith(path, <<"/">>) THEN drop(path, 1) ELSE path]

(***************************************************************************)
(* posixpath                                                               *)
(***************************************************************************)

\* posixpath.join(a, b)
join(a, b) ==
  IF startswith(b, <<"/">>) THEN b
  ELSE IF a = <<>> \/ endswith(a, <<"/">>) THEN a \o b
  ELSE a \o <<"/">> \o b

\* posixpath.normpath's loop over the components.
RECURSIVE normcomps(_, _, _)
normcomps(comps, acc, initial_slashes) ==
  IF comps = <<>> THEN acc
  ELSE LET comp == comps[1]
           rest == Tail(comps)
       IN  IF comp = <<>> \/ comp = <<".">>
           THEN normcomps(rest, acc, initial_slashes)
           ELSE IF \/ comp # <<".", ".">>
                   \/ (initial_slashes = 0 /\ acc = <<>>)
                   \/ (acc # <<>> /\ acc[Len(acc)] = <<".", ".">>)
           THEN normcomps(rest, Append(acc, comp), initial_slashes)
           ELSE IF acc # <<>>
           THEN normcomps(rest, SubSeq(acc, 1, Len(acc) - 1), initial_slashes)
           ELSE normcomps(rest, acc, initial_slashes)

\* posixpath.normpath(path)
normpath(path) ==
  IF path = <<>> THEN <<".">>
  ELSE LET initial_slashes ==
             IF ~startswith(path, <<"/">>) THEN 0
             ELSE IF startswith(path, <<"/", "/">>)
                     /\ ~startswith(path, <<"/", "/", "/">>) THEN 2
             ELSE 1
           comps == normcomps(split(path, "/"), <<>>, initial_slashes)
           body == joinwith(comps, "/")
           out == [i \in 1..initial_slashes |-> "/"] \o body
       IN  IF out = <<>> THEN <<".">> ELSE out

\* posixpath.abspath(path), with os.getcwd() = cwd.
abspath(cwd, path) ==
  IF startswith(path, <<"/">>) THEN normpath(path) ELSE normpath(join(cwd, path))

\* [x for x in s.split("/") if x]
RECURSIVE nonempty(_)
nonempty(parts) ==
  IF parts = <<>> THEN <<>>
  ELSE IF parts[1] = <<>> THEN nonempty(Tail(parts))
  ELSE <<parts[1]>> \o nonempty(Tail(parts))

\* len(commonprefix([a, b])) on lists of components.
RECURSIVE commonlen(_, _)
commonlen(a, b) ==
  IF a = <<>> \/ b = <<>> \/ a[1] # b[1] THEN 0
  ELSE 1 + commonlen(Tail(a), Tail(b))

\* posixpath.relpath(path, start), with os.getcwd() = cwd; "ValueError" for an
\* empty path.
relpath(cwd, path, start) ==
  IF path = <<>> THEN "ValueError"
  ELSE LET start_list == nonempty(split(abspath(cwd, start), "/"))
           path_list == nonempty(split(abspath(cwd, path), "/"))
           i == commonlen(start_list, path_list)
           rel_list == [j \in 1..(Len(start_list) - i) |-> <<".", ".">>]
                         \o drop(path_list, i)
       IN  IF rel_list = <<>> THEN <<".">> ELSE joinwith(rel_list, "/")

\* os.path.basename(p): posixpath's when sep is "/", ntpath's (for a path with
\* no drive) when sep is "\\".
basename(p, sep) ==
  drop(p, rfind(p, IF sep = "/" THEN {"/"} ELSE {"/", "\\"}, Len(p)))

\* mlflow.utils.file_utils.relative_path_to_artifact_path(path): the path
\* itself where os.path is posixpath, else unquote(pathname2url(path)), which
\* turns each "\\" into "/".
relative_path_to_artifact_path(path, sep) ==
  IF sep = "/" THEN path ELSE replace(path, "\\", "/")

(***************************************************************************)
(* The repository instance and its collaborators                           *)
(***************************************************************************)

\* An attribute __init__ never assigned (it returned at line 47).
Unset == "unset"

\* bool(x) for an optional string argument.
truthy(x) == x # NoneStr /\ x # <<>>

\* oss2.Bucket(auth, endpoint, bucket_name): a handle; serial tells one
\* constructed object from another.
oss2_Bucket(auth, endpoint, bucket_name, serial) ==
  [auth |-> auth, endpoint |-> endpoint, bucket |-> bucket_name,
   serial |-> serial]

\* A handle passed to __init__ as oss_bucket: built by the caller, bound to a
\* bucket of the caller's choice.
InjectedBucket == oss2_Bucket("CallerAuth", "CallerEndpoint", <<"k">>, 0)

\* The instance __init__ leaves: with oss_bucket given, only artifact_uri and
\* oss_bucket are set; else auth is oss2.Auth or oss2.ProviderAuth, the
\* endpoint is MLFLOW_OSS_ENDPOINT_URL and oss_bucket is None.
init(artifact_uri, oss_bucket, auth) ==
  IF oss_bucket # None
  THEN [artifact_uri |-> artifact_uri, auth |-> Unset,
        oss_endpoint_url |-> Unset, oss_bucket |-> oss_bucket]
  ELSE [artifact_uri |-> artifact_uri, auth |-> auth,
        oss_endpoint_url |-> "MLFLOW_OSS_ENDPOINT_URL", oss_bucket |-> None]

Auths == {"Auth", "ProviderAuth"}

\* The store after put_object_from_file(key, file) through handle `via`.
put_object(st, via, key, file) ==
  {o \in st : ~(o.bucket = via.bucket /\ o.key = key)}
    \cup {[bucket |-> via.bucket, key |-> key, data |-> file]}

\* The store after the storage calls of one method, in order: a call that
\* failed leaves it as it was.
RECURSIVE apply_calls(_, _)
apply_calls(st, calls) ==
  IF calls = <<>> THEN st
  ELSE LET c == calls[1]
       IN  apply_calls(IF c.fn = "put_object_from_file" /\ c.ok
                         THEN put_object(st, c.via, c.key, c.file) ELSE st,
                       Tail(calls))

(***************************************************************************)
(* _get_oss_bucket                                                         *)
(***************************************************************************)

\* A mutation of construct: the whole URI is passed as the bucket name.
construct_uri_as_bucket(slf, n, bucket) ==
  [slf EXCEPT !.oss_bucket =
     oss2_Bucket(slf.auth, slf.oss_endpoint_url, slf.artifact_uri, n + 1)]

\* Line 94: self.oss_bucket = oss2.Bucket(self.auth, self.oss_endpoint_url,
\* bucket); n handles were built before.
construct(slf, n, bucket) ==
  [slf EXCEPT !.oss_bucket =
     oss2_Bucket(slf.auth, slf.oss_endpoint_url, bucket, n + 1)]

\* A mutation of _get_oss_bucket: no memoization.
get_oss_bucket_always(slf, n, bucket) ==
  [self |-> construct(slf, n, bucket), n |-> n + 1,
   ret |-> construct(slf, n, bucket).oss_bucket]

\* _get_oss_bucket(bucket): the instance after the call, the number of
\* handles built so far, and the handle returned.
get_oss_bucket(slf, n, bucket) ==
  IF slf.oss_bucket # None
  THEN [self |-> slf, n |-> n, ret |-> slf.oss_bucket]
  ELSE [self |-> construct(slf, n, bucket), n |-> n + 1,
        ret |-> construct(slf, n, bucket).oss_bucket]

(***************************************************************************)
(* log_artifact                                                            *)
(***************************************************************************)

\* What a method that raised before any storage call leaves.
raised(slf, n, err) ==
  [self |-> slf, n |-> n, err |-> err, calls |-> <<>>, result |-> <<>>]

\* A mutation of log_artifact: artifact_path is ignored.
log_artifact_no_subpath(slf, n, local_file, artifact_path, sep, fails) ==
  LET p == parse_oss_uri(slf.artifact_uri)
      dest_path == join(p.path, basename(local_file, sep))
      g == get_oss_bucket(slf, n, p.bucket)
  IN  IF p.err # "none" THEN raised(slf, n, p.err)
      ELSE [self |-> g.self, n |-> g.n,
            err |-> IF fails THEN "StorageError" ELSE "none",
            calls |-> <<[fn |-> "put_object_from_file",
                         via |-> g.self.oss_bucket, key |-> dest_path,
                         file |-> local_file, ok |-> ~fails]>>,
            result |-> <<>>]

\* A mutation of log_artifact: the handle is fetched before the URI is parsed.
log_artifact_bucket_first(slf, n, local_file, artifact_path, sep, fails) ==
  LET p == parse_oss_uri(slf.artifact_uri)
      g == get_oss_bucket(slf, n, p.bucket)
      dest1 == IF truthy(artifact_path) THEN join(p.path, artifact_path)
               ELSE p.path
      dest_path == join(dest1, basename(local_file, sep))
  IN  IF p.err # "none" THEN raised(g.self, g.n, p.err)
      ELSE [self |-> g.self, n |-> g.n,
            err |-> IF fails THEN "StorageError" ELSE "none",
            calls |-> <<[fn |-> "put_object_from_file",
                         via |-> g.self.oss_bucket, key |-> dest_path,
                         file |-> local_file, ok |-> ~fails]>>,
            result |-> <<>>]

\* log_artifact(local_file, artifact_path) on a host whose os.sep is sep;
\* fails: the storage collaborator raises on the upload.
log_artifact(slf, n, local_file, artifact_path, sep, fails) ==
  LET p == parse_oss_uri(slf.artifact_uri)
      dest1 == IF truthy(artifact_path) THEN join(p.path, artifact_path)
               ELSE p.path
      dest_path == join(dest1, basename(local_file, sep))
      g == get_oss_bucket(slf, n, p.bucket)
  IN  IF p.err # "none" THEN raised(slf, n, p.err)
      ELSE [self |-> g.self, n |-> g.n,
            err |-> IF fails THEN "StorageError" ELSE "none",
            calls |-> <<[fn |-> "put_object_from_file",
                         via |-> g.self.oss_bucket, key |-> dest_path,
                         file |-> local_file, ok |-> ~fails]>>,
            result |-> <<>>]

(***************************************************************************)
(* log_artifacts                                                           *)
(***************************************************************************)

\* os.path.join(a, b) on the host, for a relative b.
os_path_join(a, b, sep) ==
  IF a = <<>> \/ endswith(a, <<sep>>) THEN a \o b ELSE a \o <<sep>> \o b

\* The directory os.walk(local_dir) reports as root for the directory whose
\* names below local_dir are dir.
RECURSIVE walk_root(_, _, _)
walk_root(local_dir, dir, sep) ==
  IF dir = <<>> THEN local_dir
  ELSE walk_root(os_path_join(local_dir, dir[1], sep), Tail(dir), sep)

\* os.path.relpath(root, local_dir) for a directory below local_dir.
os_path_relpath(dir, sep) == joinwith(dir, sep)

\* The storage calls of a walk of which the first m files are reached, keys
\* being the key of each file of the walk and the failAt-th upload (0: none) being the one the collaborator raises on.
uploads(via, local_dir, walk, keys, m, failAt, sep) ==
  [i \in 1..m |->
     [fn |-> "put_object_from_file", via |-> via, key |-> keys[i],
      file |-> os_path_join(walk_root(local_dir, walk[i].dir, sep),
                            walk[i].name, sep),
      ok |-> i # failAt]]

\* A mutation of log_artifacts: every file goes directly under dest_path.
log_artifacts_flat(slf, n, local_dir, walk, artifact_path, sep, failAt) ==
  LET p == parse_oss_uri(slf.artifact_uri)
      dest_path == IF truthy(artifact_path) THEN join(p.path, artifact_path)
                   ELSE p.path
      g == get_oss_bucket(slf, n, p.bucket)
      key(e) == join(dest_path, e.name)
      m == IF failAt = 0 THEN Len(walk) ELSE failAt
  IN  IF p.err # "none" THEN raised(slf, n, p.err)
      ELSE [self |-> g.self, n |-> g.n,
            err |-> IF failAt = 0 THEN "none" ELSE "StorageError",
            calls |-> uploads(g.self.oss_bucket, local_dir, walk,
                              [i \in 1..Len(walk) |-> key(walk[i])], m,
                              failAt, sep),
            result |-> <<>>]

\* A mutation of log_artifacts: a failed upload is skipped and the walk goes
\* on; the error is raised at the end.
log_artifacts_keep_going(slf, n, local_dir, walk, artifact_path, sep, failAt) ==
  LET p == parse_oss_uri(slf.artifact_uri)
      dest_path == IF truthy(artifact_path) THEN join(p.path, artifact_path)
                   ELSE p.path
      g == get_oss_bucket(slf, n, p.bucket)
      key(e) ==
        LET upload_path ==
              IF e.dir = <<>> THEN dest_path
              ELSE join(dest_path,
                        relative_path_to_artifact_path(
                          os_path_relpath(e.dir, sep), sep))
        IN  join(upload_path, e.name)
  IN  IF p.err # "none" THEN raised(slf, n, p.err)
      ELSE [self |-> g.self, n |-> g.n,
            err |-> IF failAt = 0 THEN "none" ELSE "StorageError",
            calls |-> uploads(g.self.oss_bucket, local_dir, walk,
                              [i \in 1..Len(walk) |-> key(walk[i])],
                              Len(walk), failAt, sep),
            result |-> <<>>]

\* log_artifacts(local_dir, artifact_path): local_dir is absolute, walk is the
\* files os.walk(local_dir) reports, in its order, each with the names of its
\* directory below local_dir; failAt is the upload on which the storage
\* collaborator raises (0: none).  The exception leaves the loop, so the
\* files after it are never reached.
log_artifacts(slf, n, local_dir, walk, artifact_path, sep, failAt) ==
  LET p == parse_oss_uri(slf.artifact_uri)
      dest_path == IF truthy(artifact_path) THEN join(p.path, artifact_path)
                   ELSE p.path
      g == get_oss_bucket(slf, n, p.bucket)
      key(e) ==
        LET upload_path ==
              IF e.dir = <<>> THEN dest_path
              ELSE join(dest_path,
                        relative_path_to_artifact_path(
                          os_path_relpath(e.dir, sep), sep))
        IN  join(upload_path, e.name)
      m == IF failAt = 0 THEN Len(walk) ELSE failAt
  IN  IF p.err # "none" THEN raised(slf, n, p.err)
      ELSE [self |-> g.self, n |-> g.n,
            err |-> IF failAt = 0 THEN "none" ELSE "StorageError",
            calls |-> uploads(g.self.oss_bucket, local_dir, walk,
                              [i \in 1..Len(walk) |-> key(walk[i])], m,
                              failAt, sep),
            result |-> <<>>]

(***************************************************************************)
(* list_artifacts                                                          *)
(***************************************************************************)

\* mlflow.entities.FileInfo(path, is_dir, file_size)
FileInfo(path, is_dir, file_size) ==
  [path |-> path, is_dir |-> is_dir, file_size |-> file_size]

\* Where x goes in the sorted list out: after every element whose path is not
\* greater (sorted() is stable).
RECURSIVE insert_sorted(_, _)
insert_sorted(out, x) ==
  IF out = <<>> THEN <<x>>
  ELSE IF strless(x.path, out[Len(out)].path)
  THEN Append(insert_sorted(SubSeq(out, 1, Len(out) - 1), x), out[Len(out)])
  ELSE Append(out, x)

\* sorted(infos, key=lambda f: f.path)
RECURSIVE sorted(_)
sorted(infos) ==
  IF infos = <<>> THEN <<>>
  ELSE insert_sorted(sorted(SubSeq(infos, 1, Len(infos) - 1)),
                     infos[Len(infos)])

\* A mutation of the prefix check: nothing is checked.
verify_nothing(listed_object_path, artifact_path) == TRUE

\* _verify_listed_object_contains_artifact_path_prefix: TRUE when it
\* returns, FALSE when it raises MlflowException.
verify_listed_object_contains_artifact_path_prefix(listed_object_path, artifact_path) ==
  startswith(listed_object_path, artifact_path)

\* The request list_artifacts(path) sends: list_objects(prefix, "/").
list_prefix(artifact_uri, path) ==
  LET artifact_path == parse_oss_uri(artifact_uri).path
      dest_path == IF truthy(path) THEN join(artifact_path, path)
                   ELSE artifact_path
  IN  IF dest_path # <<>> THEN dest_path \o <<"/">> ELSE <<>>

\* The two loops of list_artifacts over the response, as one list: the
\* objects, then the common prefixes.  A file_size of None is written -1.
listed(response) ==
  [i \in 1..(Len(response.object_list) + Len(response.prefix_list)) |->
     IF i <= Len(response.object_list)
     THEN [path |-> response.object_list[i].key, is_dir |-> FALSE,
           file_size |-> response.object_list[i].size]
     ELSE [path |-> response.prefix_list[i - Len(response.object_list)],
           is_dir |-> TRUE, file_size |-> -1]]

\* A mutation of list_artifacts: paths are taken relative to the listed
\* directory, not to the artifact path of the URI.
list_artifacts_rel_dest(slf, n, path, response, cwd) ==
  LET p == parse_oss_uri(slf.artifact_uri)
      artifact_path == p.path
      dest_path == IF truthy(path) THEN join(artifact_path, path)
                   ELSE artifact_path
      g == get_oss_bucket(slf, n, p.bucket)
      call == [fn |-> "list_objects", via |-> g.self.oss_bucket,
               key |-> list_prefix(slf.artifact_uri, path), file |-> NoneStr,
               ok |-> response.err = "none"]
      items == listed(response)
      item_err(it) ==
        IF ~verify_listed_object_contains_artifact_path_prefix(
              it.path, artifact_path)
        THEN "ObjectPathMismatch"
        ELSE IF relpath(cwd, it.path, dest_path) = "ValueError"
        THEN "ValueError" ELSE "none"
      bad == {i \in 1..Len(items) : item_err(items[i]) # "none"}
      first == CHOOSE i \in bad : \A j \in bad : i <= j
      infos == [i \in 1..Len(items) |->
                  FileInfo(relpath(cwd, items[i].path, dest_path),
                           items[i].is_dir, items[i].file_size)]
  IN  IF p.err # "none" THEN raised(slf, n, p.err)
      ELSE IF response.err # "none"
      THEN [self |-> g.self, n |-> g.n, err |-> response.err,
            calls |-> <<call>>, result |-> <<>>]
      ELSE IF bad # {}
      THEN [self |-> g.self, n |-> g.n, err |-> item_err(items[first]),
            calls |-> <<call>>, result |-> <<>>]
      ELSE [self |-> g.self, n |-> g.n, err |-> "none", calls |-> <<call>>,
            result |-> sorted(infos)]

\* list_artifacts(path) with os.getcwd() = cwd; response is what
\* list_objects returns (object_list, prefix_list), its err being "none", or
\* the error it raises.
list_artifacts(slf, n, path, response, cwd) ==
  LET p == parse_oss_uri(slf.artifact_uri)
      artifact_path == p.path
      g == get_oss_bucket(slf, n, p.bucket)
      call == [fn |-> "list_objects", via |-> g.self.oss_bucket,
               key |-> list_prefix(slf.artifact_uri, path), file |-> NoneStr,
               ok |-> response.err = "none"]
      items == listed(response)
      item_err(it) ==
        IF ~verify_listed_object_contains_artifact_path_prefix(
              it.path, artifact_path)
        THEN "ObjectPathMismatch"
        ELSE IF relpath(cwd, it.path, artifact_path) = "ValueError"
        THEN "ValueError" ELSE "none"
      bad == {i \in 1..Len(items) : item_err(items[i]) # "none"}
      first == CHOOSE i \in bad : \A j \in bad : i <= j
      infos == [i \in 1..Len(items) |->
                  FileInfo(relpath(cwd, items[i].path, artifact_path),
                           items[i].is_dir, items[i].file_size)]
  IN  IF p.err # "none" THEN raised(slf, n, p.err)
      ELSE IF response.err # "none"
      THEN [self |-> g.self, n |-> g.n, err |-> response.err,
            calls |-> <<call>>, result |-> <<>>]
      ELSE IF bad # {}
      THEN [self |-> g.self, n |-> g.n, err |-> item_err(items[first]),
            calls |-> <<call>>, result |-> <<>>]
      ELSE [self |-> g.self, n |-> g.n, err |-> "none", calls |-> <<call>>,
            result |-> sorted(infos)]

(***************************************************************************)
(* _download_file and delete_artifacts                                     *)
(***************************************************************************)

\* _download_file(remote_file_path, local_path); outcome is how
\* get_object_to_file ends: "none", or the error it raises.
download_file(slf, n, remote_file_path, local_path, outcome) ==
  LET p == parse_oss_uri(slf.artifact_uri)
      oss_full_path == join(p.path, remote_file_path)
      g == get_oss_bucket(slf, n, p.bucket)
  IN  IF p.err # "none" THEN raised(slf, n, p.err)
      ELSE [self |-> g.self, n |-> g.n, err |-> outcome,
            calls |-> <<[fn |-> "get_object_to_file",
                         via |-> g.self.oss_bucket, key |-> oss_full_path,
                         file |-> local_path, ok |-> outcome = "none"]>>,
            result |-> <<>>]

\* A mutation of delete_artifacts: an implementation that lists what is to be
\* deleted.
delete_artifacts_listing(slf, n, artifact_path) ==
  LET p == parse_oss_uri(slf.artifact_uri)
      g == get_oss_bucket(slf, n, p.bucket)
  IN  IF p.err # "none" THEN raised(slf, n, p.err)
      ELSE [self |-> g.self, n |-> g.n, err |-> "NotImplemented",
            calls |-> <<[fn |-> "list_objects", via |-> g.self.oss_bucket,
                         key |-> list_prefix(slf.artifact_uri, artifact_path),
                         file |-> NoneStr, ok |-> TRUE]>>,
            result |-> <<>>]

\* delete_artifacts(artifact_path): raises, whatever the argument.
delete_artifacts(slf, n, artifact_path) == raised(slf, n, "NotImplemented")

(***************************************************************************)
(* The storage collaborator                                                *)
(***************************************************************************)

\* The strings of S in ascending order.
RECURSIVE sort_strings(_)
sort_strings(S) ==
  IF S = {} THEN <<>>
  ELSE LET m == CHOOSE x \in S : \A y \in S : x = y \/ strless(x, y)
       IN  <<m>> \o sort_strings(S \ {m})

\* bucket.list_objects(prefix=prefix, delimiter="/") of a storage that keeps
\* to its contract: the keys under prefix with no "/" after it, each with its
\* size, and the common prefixes of the others, both in ascending order.
list_objects(st, via, prefix) ==
  LET under == {o \in st : o.bucket = via.bucket /\ startswith(o.key, prefix)}
      cut(o) == find(drop(o.key, Len(prefix)), {"/"}, 1)
      size == [k \in {o.key : o \in under} |->
                 Len((CHOOSE o \in under : o.key = k).data)]
      keys == sort_strings({o.key : o \in {u \in under : cut(u) = 0}})
      prefixes ==
        sort_strings({SubSeq(o.key, 1, Len(prefix) + cut(o)) :
                        o \in {u \in under : cut(u) # 0}})
  IN  [err |-> "none",
       object_list |-> [i \in 1..Len(keys) |->
                          [key |-> keys[i], size |-> size[keys[i]]]],
       prefix_list |-> prefixes]

\* list_objects raising.
StorageError == [err |-> "StorageError", object_list |-> <<>>,
                 prefix_list |-> <<>>]

(***************************************************************************)
(* Inputs                                                                  *)
(***************************************************************************)

\* How many calls a behaviour of Spec makes.
MaxOps == 3
\* How many objects and common prefixes a listing response of SpecList holds.
MaxObjects == 2
MaxPrefixes == 1
\* How many callers SpecRace runs at once.
NumCallers == 2

OssScheme == <<"o", "s", "s", ":">>
Uri_b_r == OssScheme \o <<"/", "/", "b", "/", "r">>
Uri_b == OssScheme \o <<"/", "/", "b">>
Uri_b_r_slash == OssScheme \o <<"/", "/", "b", "/", "r", "/">>
Uri_b_abs_r == OssScheme \o <<"/", "/", "b", "/", "/", "r">>
Uri_s3 == <<"s", "3", ":", "/", "/", "b", "/", "r">>

\* The URIs an instance is constructed with.
RepoURIs == {Uri_b_r, Uri_b, Uri_s3}
WideURIs == RepoURIs \cup {Uri_b_r_slash, Uri_b_abs_r}

\* The URIs parse_oss_uri is applied to are put together from a scheme, the
\* slashes after it, an authority, a path, and a query or a fragment.
UriSchemes == {OssScheme, <<"O", "S", "S", ":">>, <<"s", "3", ":">>, <<>>}
UriSlashes == {<<"/", "/">>, <<"/">>, <<>>}
UriAuthorities == {<<>>, <<"b">>, <<"b", "k">>}
UriPaths == {<<>>, <<"/">>, <<"/", "r">>, <<"/", "r", "/">>,
             <<"/", "/", "x">>, <<"/", "r", "/", "a">>, <<"r">>}
UriTails == {<<>>, <<"?", "q">>, <<"#", "f">>}

\* artifact_path / path arguments: absent, empty, a name.
SubPaths == {NoneStr, <<>>, <<"s">>}
WideSubPaths == SubPaths \cup {<<"s", "/">>, <<"/", "a">>, <<"s", "/", "t">>}

\* local_file arguments.
LocalFiles == {<<"f">>, <<"d", "/", "g">>}
WideLocalFiles == LocalFiles \cup {<<"/", "t", "/", "f">>, <<"d", "\\", "g">>}

\* The local directory log_artifacts is given, after os.path.abspath.
LocalDir(sep) == <<sep, "t">>

F(dir, name) == [dir |-> dir, name |-> name]
\* Local trees: the regular files below local_dir, each with the names of
\* its directory.  TreeSub is root/{f, s/g}.
TreeEmpty == {}
TreeOne == {F(<<>>, <<"f">>)}
TreeTwo == {F(<<>>, <<"f">>), F(<<>>, <<"g">>)}
TreeSub == {F(<<>>, <<"f">>), F(<<<<"s">>>>, <<"g">>)}
TreeSiblings == {F(<<<<"s">>>>, <<"f">>), F(<<<<"d">>>>, <<"f">>)}
TreeDeep == {F(<<>>, <<"f">>), F(<<<<"s">>>>, <<"f">>),
             F(<<<<"s">>, <<"t">>>>, <<"g">>)}
Trees == {TreeSub}
WideTrees == {TreeEmpty, TreeOne, TreeTwo, TreeSub, TreeSiblings, TreeDeep}

isprefix(a, b) == Len(a) <= Len(b) /\ SubSeq(b, 1, Len(a)) = a

\* The orders in which os.walk(local_dir), top-down, can report the files of
\* tree: a directory's files before those of the directories below it, and
\* each subtree in one piece (the order of the names within a directory is
\* the file system's).
os_walk(tree) ==
  LET n == Cardinality(tree)
      dirs == UNION {{SubSeq(e.dir, 1, k) : k \in 0..Len(e.dir)} : e \in tree}
  IN  {w \in [1..n -> tree] :
         /\ \A i, j \in 1..n : i # j => w[i] # w[j]
         /\ \A i, j \in 1..n :
              (w[i].dir # w[j].dir /\ isprefix(w[i].dir, w[j].dir)) => i < j
         /\ \A d \in dirs : \A i, j, k \in 1..n :
              (i < j /\ j < k /\ isprefix(d, w[i].dir) /\ isprefix(d, w[k].dir))
                => isprefix(d, w[j].dir)}

\* os.getcwd() when list_artifacts runs.
Cwds == {<<"/">>, <<"/", "w">>}

Obj(key, size) == [key |-> key, size |-> size]
\* What a listing may hold for an instance whose artifact path is "r": files
\* below it (one named as a common prefix is), the key "r/" itself, a key
\* that begins with the letters of "r" but lies beside it, a key elsewhere,
\* the empty key.
ObjPool == {Obj(<<"r", "/", "a">>, 1),
            Obj(<<"r", "/", "s">>, 2), Obj(<<"r", "/">>, 0),
            Obj(<<"r", "x", "/", "a">>, 1), Obj(<<"x", "/", "a">>, 3),
            Obj(<<>>, 0)}
PrefixPool == {<<"r", "/", "s", "/">>, <<"r", "/", "d", "/">>,
               <<"r", "x", "/">>, <<"x", "/">>}

SeqsUpTo(S, n) == UNION {[1..k -> S] : k \in 0..n}

\* What list_objects may answer, whether or not the storage keeps to its
\* contract.
Responses ==
  {[err |-> "none", object_list |-> ol, prefix_list |-> pl] :
     ol \in SeqsUpTo(ObjPool, MaxObjects),
     pl \in SeqsUpTo(PrefixPool, MaxPrefixes)} \cup {StorageError}

\* What the remote store may hold before the first call.
InitStores ==
  {{}, {[bucket |-> <<"b">>, key |-> <<"r", "/", "f">>, data |-> <<"o">>],
        [bucket |-> <<"b">>, key |-> <<"r", "/", "a">>, data |-> <<"o">>],
        [bucket |-> <<"k">>, key |-> <<"r", "/", "f">>, data |-> <<"o">>]}}

(***************************************************************************)
(* Actions                                                                 *)
(***************************************************************************)

NoCall == [op |-> "init", args |-> [none |-> TRUE], err |-> "none",
           calls |-> <<>>, result |-> <<>>]

\* The instances __init__ can leave for the URIs uris.
Instances(uris) ==
  {init(u, None, a) : u \in uris, a \in Auths}
    \cup {init(u, InjectedBucket, Unset) : u \in uris}

\* What a call that ended as r leaves.
Commit(op, args, r) ==
  /\ self' = r.self
  /\ nconstruct' = r.n
  /\ store' = apply_calls(store, r.calls)
  /\ last' = [op |-> op, args |-> args, err |-> r.err, calls |-> r.calls,
              result |-> r.result]
  /\ nops' = nops + 1
  /\ UNCHANGED <<os_sep, pc, held>>

LogArtifact(files, subpaths, cap) ==
  /\ nops < cap
  /\ \E local_file \in files, artifact_path \in subpaths, fails \in BOOLEAN :
       \E r \in {log_artifact(self, nconstruct, local_file, artifact_path,
                              os_sep, fails)} :
         Commit("log_artifact",
                [local_file |-> local_file, artifact_path |-> artifact_path],
                r)

LogArtifacts(trees, subpaths, cap) ==
  /\ nops < cap
  /\ \E tree \in trees, artifact_path \in subpaths :
       \E walk \in os_walk(tree) : \E failAt \in 0..Len(walk) :
         \E r \in {log_artifacts(self, nconstruct, LocalDir(os_sep), walk,
                                 artifact_path, os_sep, failAt)} :
           Commit("log_artifacts",
                  [local_dir |-> LocalDir(os_sep), tree |-> tree,
                   walk |-> walk, artifact_path |-> artifact_path,
                   failAt |-> failAt],
                  r)

\* list_artifacts against a storage that keeps to its contract, or raises.
ListArtifacts(subpaths, cap) ==
  /\ nops < cap
  /\ \E path \in subpaths, cwd \in Cwds, fails \in BOOLEAN :
       \E via \in {get_oss_bucket(self, nconstruct,
                                  parse_oss_uri(self.artifact_uri).bucket).ret} :
         \E response \in
              {IF fails THEN StorageError
               ELSE list_objects(store, via,
                                 list_prefix(self.artifact_uri, path))} :
           \E r \in {list_artifacts(self, nconstruct, path, response, cwd)} :
             Commit("list_artifacts",
                    [path |-> path, cwd |-> cwd, response |-> response], r)

\* list_artifacts against a storage that may answer anything.
ListArtifactsAny(subpaths, cap) ==
  /\ nops < cap
  /\ \E path \in subpaths, cwd \in Cwds, response \in Responses :
       \E r \in {list_artifacts(self, nconstruct, path, response, cwd)} :
         Commit("list_artifacts",
                [path |-> path, cwd |-> cwd, response |-> response], r)

\* _download_file against a storage that keeps to its contract (NoSuchKey
\* for a key it does not hold), or raises.
DownloadFile(subpaths, cap) ==
  /\ nops < cap
  /\ \E remote_file_path \in subpaths \ {NoneStr}, fails \in BOOLEAN :
       \E req \in {download_file(self, nconstruct, remote_file_path, <<"o">>,
                                 "none")} :
         \E outcome \in
              {IF fails THEN "StorageError"
               ELSE IF /\ req.calls # <<>>
                       /\ \A o \in store :
                            ~(/\ o.bucket = req.calls[1].via.bucket
                              /\ o.key = req.calls[1].key)
               THEN "NoSuchKey"
               ELSE "none"} :
           \E r \in {download_file(self, nconstruct, remote_file_path,
                                   <<"o">>, outcome)} :
             Commit("_download_file",
                    [remote_file_path |-> remote_file_path], r)

DeleteArtifacts(subpaths, cap) ==
  /\ nops < cap
  /\ \E artifact_path \in subpaths :
       \E r \in {delete_artifacts(self, nconstruct, artifact_path)} :
         Commit("delete_artifacts", [artifact_path |-> artifact_path], r)

\* A direct call of _get_oss_bucket with any bucket name.
GetOssBucket(cap) ==
  /\ nops < cap
  /\ \E bucket \in {<<"b">>, <<"k">>, <<"x">>} :
       \E g \in {get_oss_bucket(self, nconstruct, bucket)} :
         Commit("_get_oss_bucket", [bucket |-> bucket],
                [self |-> g.self, n |-> g.n, err |-> "none", calls |-> <<>>,
                 result |-> <<g.ret>>])

\* parse_oss_uri is a static method: it is applied to any URI.
ParseOssUri ==
  /\ nops = 0
  /\ \E sch \in UriSchemes, sl \in UriSlashes, au \in UriAuthorities,
        pa \in UriPaths, tl \in UriTails :
       \E r \in {parse_oss_uri(sch \o sl \o au \o pa \o tl)} :
         last' = [op |-> "parse_oss_uri",
                  args |-> [uri |-> sch \o sl \o au \o pa \o tl,
                            scheme |-> sch, slashes |-> sl, authority |-> au,
                            path |-> pa, tail |-> tl],
                  err |-> r.err, calls |-> <<>>,
                  result |-> <<r.bucket, r.path>>]
  /\ nops' = nops + 1
  /\ UNCHANGED <<self, nconstruct, store, os_sep, pc, held>>

(***************************************************************************)
(* Specifications                                                          *)
(***************************************************************************)

InitWith(uris, stores, seps) ==
  /\ self \in Instances(uris)
  /\ nconstruct = 0
  /\ store \in stores
  /\ os_sep \in seps
  /\ last = NoCall
  /\ nops = 0
  /\ pc = <<>>
  /\ held = <<>>

\* Any sequence of calls on one instance, one after the other.
Init == InitWith(RepoURIs, {{}}, {"/"})

Next ==
  \/ LogArtifact(LocalFiles, SubPaths, MaxOps)
  \/ LogArtifacts(Trees, SubPaths, MaxOps)
  \/ ListArtifacts(SubPaths, MaxOps)
  \/ DownloadFile(SubPaths, MaxOps)
  \/ DeleteArtifacts(SubPaths, MaxOps)
  \/ GetOssBucket(MaxOps)

Spec == Init /\ [][Next]_vars

\* One upload, over every URI, sub-path, file and tree, on either host and
\* over a store that may hold objects already.
InitPut == InitWith(WideURIs, InitStores, {"/", "\\"})

NextPut ==
  \/ LogArtifact(WideLocalFiles, WideSubPaths, 1)
  \/ LogArtifacts(WideTrees, WideSubPaths, 1)

SpecPut == InitPut /\ [][NextPut]_vars

\* One listing, over every answer of the storage.
InitList ==
  /\ InitWith(WideURIs, {{}}, {"/"})
  /\ self.auth # "ProviderAuth"
  /\ self.oss_bucket # None => self.artifact_uri = Uri_b_r

NextList == ListArtifactsAny(SubPaths, 1)

SpecList == InitList /\ [][NextList]_vars

\* parse_oss_uri alone, applied once.
InitParse ==
  InitWith({Uri_b_r}, {{}}, {"/"}) /\ self = init(Uri_b_r, None, "Auth")

NextParse == ParseOssUri

SpecParse == InitParse /\ [][NextParse]_vars

(***************************************************************************)
(* Concurrent callers of log_artifact on one instance                      *)
(***************************************************************************)

Callers == 1..NumCallers

NoLocals == [bucket |-> <<>>, key |-> <<>>, file |-> <<>>, built |-> None,
             ret |-> None, via |-> None, err |-> "none"]

\* Lines 98-101: the URI is parsed and the key is put together.
Call(t) ==
  /\ pc[t] = "idle"
  /\ \E local_file \in LocalFiles, artifact_path \in SubPaths :
       \E p \in {parse_oss_uri(self.artifact_uri)} :
         IF p.err # "none"
         THEN /\ pc' = [pc EXCEPT ![t] = "raised"]
              /\ held' = [held EXCEPT ![t].err = p.err]
         ELSE /\ pc' = [pc EXCEPT ![t] = "check"]
              /\ held' = [held EXCEPT
                   ![t].bucket = p.bucket,
                   ![t].file = local_file,
                   ![t].key =
                     join(IF truthy(artifact_path)
                            THEN join(p.path, artifact_path) ELSE p.path,
                          basename(local_file, os_sep))]
  /\ UNCHANGED <<self, nconstruct, store, os_sep, last, nops>>

\* Line 91: if self.oss_bucket is not None.
Check(t) ==
  /\ pc[t] = "check"
  /\ pc' = [pc EXCEPT ![t] = IF self.oss_bucket # None THEN "return"
                             ELSE "construct"]
  /\ UNCHANGED <<self, nconstruct, store, os_sep, last, nops, held>>

\* Line 94: the handle is built and stored.
Construct(t) ==
  /\ pc[t] = "construct"
  /\ self' = construct(self, nconstruct, held[t].bucket)
  /\ nconstruct' = nconstruct + 1
  /\ held' = [held EXCEPT ![t].built = self'.oss_bucket]
  /\ pc' = [pc EXCEPT ![t] = "return"]
  /\ UNCHANGED <<store, os_sep, last, nops>>

\* Line 95: return self.oss_bucket.
Return(t) ==
  /\ pc[t] = "return"
  /\ held' = [held EXCEPT ![t].ret = self.oss_bucket]
  /\ pc' = [pc EXCEPT ![t] = "put"]
  /\ UNCHANGED <<self, nconstruct, store, os_sep, last, nops>>

\* Line 103: self.oss_bucket.put_object_from_file(dest_path, local_file).
Put(t) ==
  /\ pc[t] = "put"
  /\ \E fails \in BOOLEAN :
       /\ held' = [held EXCEPT ![t].via = self.oss_bucket,
                               ![t].err = IF fails THEN "StorageError"
                                          ELSE "none"]
       /\ store' = IF fails THEN store
                   ELSE put_object(store, self.oss_bucket, held[t].key,
                                   held[t].file)
       /\ pc' = [pc EXCEPT ![t] = IF fails THEN "raised" ELSE "done"]
  /\ UNCHANGED <<self, nconstruct, os_sep, last, nops>>

InitRace ==
  /\ self \in Instances(RepoURIs)
  /\ nconstruct = 0
  /\ store = {}
  /\ os_sep = "/"
  /\ last = NoCall
  /\ nops = 0
  /\ pc = [t \in Callers |-> "idle"]
  /\ held = [t \in Callers |-> NoLocals]

NextRace ==
  \E t \in Callers : Call(t) \/ Check(t) \/ Construct(t) \/ Return(t) \/ Put(t)

SpecRace == InitRace /\ [][NextRace]_vars

(***************************************************************************)
(* Properties                                                              *)
(***************************************************************************)

\* The last step was a call of op.
Called(op) == last.op = op

\* The base prefix of the instance: the path parse_oss_uri gives for its URI.
BasePrefix == parse_oss_uri(self.artifact_uri).path

\* C1: for a URI whose scheme is "oss", parse_oss_uri returns the authority
\* of the URI as the bucket, verbatim, and the path of the URI with exactly
\* one leading "/" removed as the key prefix: the path is empty when the URI
\* has no path ("oss://b" gives ("b", "")), and any further leading slash
\* and every trailing slash is kept ("oss://b//x" gives the path "/x").
C1_ParseOssUri ==
  (Called("parse_oss_uri") /\ urlparse(last.args.uri).scheme = <<"o", "s", "s">>)
    => /\ last.err = "none"
       /\ last.result[1] = urlparse(last.args.uri).netloc
       /\ LET path == urlparse(last.args.uri).path
              prefix == last.result[2]
          IN  /\ path = <<>> => prefix = <<>>
              /\ (path # <<>> /\ path[1] = "/") => <<"/">> \o prefix = path
              /\ (path # <<>> /\ path[1] # "/") => prefix = path
       /\ (/\ last.args.slashes = <<"/", "/">>
           /\ last.args.path = <<>> \/ last.args.path[1] = "/")
            => /\ last.result[1] = last.args.authority
               /\ last.args.path = <<>> => last.result[2] = <<>>
               /\ last.args.path # <<>>
                    => <<"/">> \o last.result[2] = last.args.path
       /\ last.args.uri = Uri_b => last.result = <<<<"b">>, <<>>>>
       /\ last.args.uri = Uri_b_abs_r => last.result = <<<<"b">>, <<"/", "r">>>>

C1_Witness ==
  /\ Called("parse_oss_uri")
  /\ last.args.uri = OssScheme \o <<"/", "/", "b", "/", "/", "x">>
  /\ last.err = "none"
  /\ last.result = <<<<"b">>, <<"/", "x">>>>

\* The last step was a list_artifacts call that got a listing from the
\* storage for an instance whose URI parses.
Listed ==
  /\ Called("list_artifacts")
  /\ parse_oss_uri(self.artifact_uri).err = "none"
  /\ last.args.response.err = "none"

\* The keys and common prefixes of the listing of the last step, in the
\* order the code reads them.
ListedPaths ==
  [i \in 1..Len(last.args.response.object_list) |->
     last.args.response.object_list[i].key] \o last.args.response.prefix_list

\* How often x occurs in the sequence q.
Count(q, x) == Cardinality({i \in 1..Len(q) : q[i] = x})

\* The sequences q and r hold the same elements, each as often.
SameElements(q, r) ==
  /\ Len(q) = Len(r)
  /\ \A i \in 1..Len(q) : Count(q, q[i]) = Count(r, q[i])

\* The entries of infos are in ascending order of path.
Ascending(infos) ==
  \A i, j \in 1..Len(infos) : i < j => ~strless(infos[j].path, infos[i].path)

\* key with the base prefix, the "/" after it and one trailing "/" taken off.
Stripped(key, base) ==
  LET k1 == drop(key, Len(base))
      k2 == IF k1 # <<>> /\ k1[1] = "/" THEN Tail(k1) ELSE k1
  IN  IF k2 # <<>> /\ k2[Len(k2)] = "/" THEN SubSeq(k2, 1, Len(k2) - 1)
      ELSE k2

\* key names something below base: it is base, a "/" unless base is empty
\* or ends with one, and a remainder that, without one trailing "/", is a
\* non-empty path with no empty, "." or ".." segment.
Below(key, base) ==
  /\ startswith(key, join(base, <<>>))
  /\ LET r == Stripped(drop(key, Len(join(base, <<>>))), <<>>)
     IN  /\ r # <<>>
         /\ r[1] # "/"
         /\ \A i \in 1..Len(split(r, <<"/">>)) :
              split(r, <<"/">>)[i] \notin {<<>>, <<".">>, <<".", ".">>}

\* The remainder of a key below base.
Remainder(key, base) == Stripped(drop(key, Len(join(base, <<>>))), <<>>)

\* The entries the listing of the last step stands for, in the order read,
\* paths[i] being the path of the i-th.
Entries(paths) ==
  [i \in 1..Len(ListedPaths) |->
     FileInfo(paths[i],
              i > Len(last.args.response.object_list),
              IF i > Len(last.args.response.object_list) THEN -1
              ELSE last.args.response.object_list[i].size)]

\* The string s begins with the characters of t.
BeginsWith(s, t) ==
  Len(s) >= Len(t) /\ \A k \in 1..Len(t) : s[k] = t[k]

\* C3: list_artifacts fails with ObjectPathMismatch, and returns nothing,
\* exactly when the listing holds an object key or a common prefix that does
\* not begin with the base prefix of the URI (which is not the listed
\* directory when a sub-path is given).
C3_ObjectPathMismatch ==
  Listed =>
    /\ last.err = "ObjectPathMismatch"
         <=> \E i \in 1..Len(ListedPaths) :
               ~BeginsWith(ListedPaths[i], BasePrefix)
    /\ last.err = "ObjectPathMismatch" => last.result = <<>>

C3_Witness ==
  /\ Listed
  /\ self.artifact_uri = Uri_b_r
  /\ last.args.path = <<"s">>
  /\ Len(last.args.response.object_list) = 2
  /\ \A i \in 1..2 :
       startswith(last.args.response.object_list[i].key, <<"r", "/">>)
  /\ last.args.response.prefix_list = <<<<"x", "/">>>>
  /\ last.err = "ObjectPathMismatch"

\* A listing that passes the prefix check.
PassesCheck ==
  \A i \in 1..Len(ListedPaths) : BeginsWith(ListedPaths[i], BasePrefix)

\* C2 as stated: for every listing that passes the prefix check,
\* list_artifacts returns one entry per object and one per common prefix,
\* each path being the key with the base prefix and the slashes around the
\* remainder stripped, in ascending order of path.
C2_Original ==
  (Listed /\ PassesCheck) =>
    /\ last.err = "none"
    /\ SameElements(last.result,
                    Entries([i \in 1..Len(ListedPaths) |->
                               Stripped(ListedPaths[i], BasePrefix)]))
    /\ Ascending(last.result)

\* C2: for every listing that passes the prefix check and holds no empty
\* key, list_artifacts returns one entry per object (not a directory, with
\* its size) and one per common prefix (a directory, no size), none dropped
\* or merged; each path is the key taken relative to the base prefix by
\* posixpath.relpath, which for a key below the base prefix is the remainder
\* without its trailing "/", while for the base prefix "r" the key "r/"
\* gives "." and the key "rx/a" gives "../rx/a"; the entries are in
\* ascending order of path.
C2_ListArtifacts ==
  (/\ Listed
   /\ PassesCheck
   /\ \A i \in 1..Len(ListedPaths) : ListedPaths[i] # <<>>) =>
    /\ last.err = "none"
    /\ Len(last.result) = Len(last.args.response.object_list)
                            + Len(last.args.response.prefix_list)
    /\ SameElements(last.result,
                    Entries([i \in 1..Len(ListedPaths) |->
                               relpath(last.args.cwd, ListedPaths[i],
                                       BasePrefix)]))
    /\ \A i \in 1..Len(ListedPaths) :
         LET key == ListedPaths[i]
             e == Entries([k \in 1..Len(ListedPaths) |->
                             Remainder(ListedPaths[k], BasePrefix)])[i]
         IN  /\ Below(key, BasePrefix) => Count(last.result, e) >= 1
             /\ (BasePrefix = <<"r">> /\ key = <<"r", "/">>)
                  => \E j \in 1..Len(last.result) :
                       last.result[j].path = <<".">>
             /\ (BasePrefix = <<"r">> /\ key = <<"r", "x", "/", "a">>)
                  => \E j \in 1..Len(last.result) :
                       last.result[j].path
                         = <<".", ".", "/", "r", "x", "/", "a">>
    /\ Ascending(last.result)

C2_Witness ==
  /\ Listed
  /\ self.artifact_uri = Uri_b_r
  /\ last.args.response.object_list
       = <<Obj(<<"r", "/", "s">>, 2), Obj(<<"r", "/", "a">>, 1)>>
  /\ last.args.response.prefix_list = <<<<"r", "/", "s", "/">>>>
  /\ last.err = "none"
  /\ last.result = <<FileInfo(<<"a">>, FALSE, 1), FileInfo(<<"s">>, FALSE, 2),
                     FileInfo(<<"s">>, TRUE, -1)>>

\* The last step was an upload call op for an instance whose URI parses.
Uploaded(op) ==
  Called(op) /\ parse_oss_uri(self.artifact_uri).err = "none"

\* b is the last component of the local path file on a host whose separator
\* is sep ("\\" hosts take "/" for a separator too).
IsBasename(b, file, sep) ==
  LET seps == IF sep = "\\" THEN {"\\", "/"} ELSE {"/"}
  IN  /\ Len(b) <= Len(file)
      /\ SubSeq(file, Len(file) - Len(b) + 1, Len(file)) = b
      /\ \A k \in 1..Len(b) : b[k] \notin seps
      /\ Len(b) < Len(file) => file[Len(file) - Len(b)] \in seps

\* a and b put together as posixpath.join does: b alone when it starts with
\* "/", else a, a "/" unless a is empty or ends with one, and b.
Joined(a, b) ==
  IF b # <<>> /\ b[1] = "/" THEN b
  ELSE IF a = <<>> \/ a[Len(a)] = "/" THEN a \o b
  ELSE a \o <<"/">> \o b

\* C4: a log_artifacts that meets no storage error uploads every regular
\* file of the tree once and nothing else: a file of the root directory to
\* join(effectiveRoot, filename) and a file of a descendant directory to
\* join(effectiveRoot, relativeDirPath, filename), effectiveRoot being
\* join(basePrefix, artifact_path) when artifact_path is given, else
\* basePrefix, and relativeDirPath the names of the directory below the
\* local root with "/" between them, on either kind of host.
C4_LogArtifactsKeys ==
  (Uploaded("log_artifacts") /\ last.err = "none") =>
    LET tree == last.args.tree
        effectiveRoot ==
          IF last.args.artifact_path # NoneStr
          THEN Joined(BasePrefix, last.args.artifact_path) ELSE BasePrefix
        relativeDirPath(e) == joinwith(e.dir, "/")
        key(e) == IF e.dir = <<>> THEN Joined(effectiveRoot, e.name)
                  ELSE Joined(Joined(effectiveRoot, relativeDirPath(e)),
                              e.name)
        local(e) == last.args.local_dir \o <<os_sep>>
                      \o IF e.dir = <<>> THEN e.name
                         ELSE joinwith(e.dir, os_sep) \o <<os_sep>>
                                \o e.name
    IN  /\ Len(last.calls) = Cardinality(tree)
        /\ \A e \in tree :
             \E i \in 1..Len(last.calls) :
               /\ last.calls[i].fn = "put_object_from_file"
               /\ last.calls[i].file = local(e)
               /\ last.calls[i].key = key(e)
               /\ last.calls[i].ok
               /\ \A j \in 1..Len(last.calls) :
                    last.calls[j].file = local(e) => j = i

C4_Witness ==
  /\ Uploaded("log_artifacts")
  /\ last.err = "none"
  /\ os_sep = "\\"
  /\ self.artifact_uri = Uri_b_r
  /\ last.args.tree = TreeDeep
  /\ last.args.artifact_path = <<"s">>
  /\ \E i \in 1..3 :
       last.calls[i].key = <<"r", "/", "s", "/", "s", "/", "t", "/", "g">>
  /\ \E i \in 1..3 : last.calls[i].key = <<"r", "/", "s", "/", "f">>

\* The step is a call of op on an instance whose URI parses.
Uploads(op) ==
  /\ nops' = nops + 1
  /\ last'.op = op
  /\ parse_oss_uri(self.artifact_uri).err = "none"

\* A prefix or sub-path with no "/" at either end.
Plain(s) == s # <<>> /\ s[1] # "/" /\ s[Len(s)] # "/"

\* The last components a local path may have: its suffixes.
Suffixes(file) == {SubSeq(file, k, Len(file)) : k \in 1..(Len(file) + 1)}

\* The store st with the object key of the bucket set to the file.
WithObject(st, bucket, key, file) ==
  {o \in st : o.bucket # bucket \/ o.key # key}
    \cup {[bucket |-> bucket, key |-> key, data |-> file]}

\* C5 as stated: for a prefix that is empty or has no "/" at either end and
\* a sub-path that is absent, empty or has no "/" at either end, a
\* log_artifact that succeeds uploads to prefix + "/" + subpath + "/" +
\* basename(file) when the sub-path is given (for the empty sub-path either
\* reading is taken), else to prefix + "/" + basename(file).
C5_Original ==
  (/\ Uploaded("log_artifact")
   /\ last.err = "none"
   /\ BasePrefix = <<>> \/ Plain(BasePrefix)
   /\ last.args.artifact_path \in {NoneStr, <<>>}
        \/ Plain(last.args.artifact_path)) =>
    \E b \in Suffixes(last.args.local_file) :
      /\ IsBasename(b, last.args.local_file, os_sep)
      /\ \/ /\ last.args.artifact_path \in {NoneStr, <<>>}
            /\ last.calls[1].key = BasePrefix \o <<"/">> \o b
         \/ /\ last.args.artifact_path # NoneStr
            /\ last.calls[1].key
                 = BasePrefix \o <<"/">> \o last.args.artifact_path
                     \o <<"/">> \o b

\* C5: log_artifact uploads to posixpath.join(prefix, subpath,
\* basename(file)) when the sub-path is given and not empty, else to
\* posixpath.join(prefix, basename(file)): that is prefix + "/" + subpath +
\* "/" + basename(file), or prefix + "/" + basename(file), when the prefix
\* is not empty and neither it nor the sub-path has a "/" at either end, and
\* the same without the leading "/" when the prefix is empty.  The call
\* issues that one upload, through a handle that, unless injected, is bound
\* to the bucket of the URI; when it succeeds exactly that object of the
\* handle's bucket is created or overwritten and every other object is left
\* as it was, and when the upload fails the store is left as it was.
C5_LogArtifact ==
  [][Uploads("log_artifact") =>
       LET sub == last'.args.artifact_path
           file == last'.args.local_file
           call == last'.calls[1]
           absent == sub \in {NoneStr, <<>>}
       IN  /\ Len(last'.calls) = 1
           /\ call.fn = "put_object_from_file"
           /\ call.file = file
           /\ self.auth # Unset
                => call.via.bucket = parse_oss_uri(self.artifact_uri).bucket
           /\ \E b \in Suffixes(file) :
                /\ IsBasename(b, file, os_sep)
                /\ call.key = IF absent THEN Joined(BasePrefix, b)
                              ELSE Joined(Joined(BasePrefix, sub), b)
                /\ (Plain(BasePrefix) /\ absent)
                     => call.key = BasePrefix \o <<"/">> \o b
                /\ (Plain(BasePrefix) /\ ~absent /\ Plain(sub))
                     => call.key = BasePrefix \o <<"/">> \o sub \o <<"/">> \o b
                /\ (BasePrefix = <<>> /\ absent) => call.key = b
                /\ (BasePrefix = <<>> /\ ~absent /\ Plain(sub))
                     => call.key = sub \o <<"/">> \o b
           /\ last'.err \in {"none", "StorageError"}
           /\ last'.err = "none"
                => store' = WithObject(store, call.via.bucket, call.key, file)
           /\ last'.err # "none" => store' = store]_vars

C5_Witness ==
  /\ Uploaded("log_artifact")
  /\ last.err = "none"
  /\ self.artifact_uri = Uri_b_r
  /\ self.auth = "Auth"
  /\ last.args.artifact_path = <<"s">>
  /\ last.args.local_file = <<"d", "/", "g">>
  /\ last.calls[1].key = <<"r", "/", "s", "/", "g">>
  /\ Cardinality(store) = 4

\* C7: when the storage fails on the upload of the k-th file of the walk,
\* log_artifacts fails with that error, the failing upload is the last call
\* it issues, the uploads before it succeeded and their objects are in the
\* store with the files' contents, and every other object is as it was.
C7_LogArtifactsAbort ==
  [][(Uploads("log_artifacts") /\ last'.args.failAt > 0) =>
       LET k == last'.args.failAt
           calls == last'.calls
       IN  /\ last'.err = "StorageError"
           /\ Len(calls) = k
           /\ ~calls[k].ok
           /\ \A i \in 1..(k - 1) :
                /\ calls[i].ok
                /\ [bucket |-> calls[i].via.bucket, key |-> calls[i].key,
                    data |-> calls[i].file] \in store'
           /\ \A o \in store :
                o \in store'
                  \/ \E i \in 1..(k - 1) :
                       calls[i].via.bucket = o.bucket /\ calls[i].key = o.key
           /\ \A o \in store' :
                o \in store
                  \/ \E i \in 1..(k - 1) :
                       calls[i].via.bucket = o.bucket /\ calls[i].key = o.key]_vars

C7_Witness ==
  /\ Uploaded("log_artifacts")
  /\ last.args.tree = TreeDeep
  /\ last.args.failAt = 2
  /\ last.err = "StorageError"
  /\ Len(last.calls) = 2
  /\ self.artifact_uri = Uri_b_r
  /\ self.auth = "Auth"
  /\ last.args.artifact_path = NoneStr
  /\ [bucket |-> <<"b">>, key |-> <<"r", "/", "f">>,
      data |-> LocalDir(os_sep) \o <<os_sep, "f">>] \in store
  /\ Cardinality(store) = 3

\* The step is a call of op.
Calls(op) == nops' = nops + 1 /\ last'.op = op

\* C6: in any sequence of calls made one after the other the bucket handle
\* is constructed at most once and, once set, never replaced; a
\* _get_oss_bucket called when the handle is set returns that handle,
\* whatever bucket name it is given; every storage call of every operation
\* goes through the handle of the instance; and a handle injected at
\* construction is never replaced and nothing is ever constructed beside it.
C6_HandleOnce ==
  [][/\ self.oss_bucket # None => self'.oss_bucket = self.oss_bucket
     /\ nconstruct' <= 1
     /\ self.oss_bucket # None => nconstruct' = nconstruct
     /\ (Calls("_get_oss_bucket") /\ self.oss_bucket # None)
          => last'.result = <<self.oss_bucket>>
     /\ Calls("_get_oss_bucket") => last'.result = <<self'.oss_bucket>>
     /\ \A i \in 1..Len(last'.calls) :
          last'.calls[i].via = self'.oss_bucket
     /\ self.auth = Unset
          => self'.oss_bucket = InjectedBucket /\ nconstruct' = 0]_vars

C6_Witness ==
  /\ nops = 3
  /\ nconstruct = 1
  /\ Called("_get_oss_bucket")
  /\ last.args.bucket = <<"x">>
  /\ last.result[1].bucket = <<"b">>
  /\ last.result[1] = self.oss_bucket
  /\ store # {}

\* C8: delete_artifacts fails with NotImplemented in every state and for
\* every argument, issues no storage call, constructs no handle and leaves
\* the instance and the store as they were.
C8_DeleteNotImplemented ==
  [][Calls("delete_artifacts") =>
       /\ last'.err = "NotImplemented"
       /\ last'.calls = <<>>
       /\ self' = self
       /\ nconstruct' = nconstruct
       /\ store' = store]_vars

C8_Witness ==
  /\ Called("delete_artifacts")
  /\ last.err = "NotImplemented"
  /\ last.args.artifact_path = <<"s">>
  /\ parse_oss_uri(self.artifact_uri).err = "none"
  /\ self.oss_bucket # None
  /\ store # {}

\* C10: on an instance whose URI has a scheme other than "oss", every call
\* of log_artifact, log_artifacts, list_artifacts and _download_file, the
\* first and every later one, fails with InvalidURIScheme, constructs no
\* handle and issues no storage call: a handle that is unset stays unset,
\* the instance and the store are left as they were.
C10_InvalidScheme ==
  [][(/\ urlparse(self.artifact_uri).scheme # <<"o", "s", "s">>
      /\ \E op \in {"log_artifact", "log_artifacts", "list_artifacts",
                    "_download_file"} : Calls(op)) =>
       /\ last'.err = "InvalidURIScheme"
       /\ last'.calls = <<>>
       /\ nconstruct' = nconstruct
       /\ self.oss_bucket = None => self'.oss_bucket = None
       /\ self' = self
       /\ store' = store]_vars

C10_Witness ==
  /\ self.artifact_uri = Uri_s3
  /\ nops = 3
  /\ Called("list_artifacts")
  /\ last.err = "InvalidURIScheme"
  /\ self.oss_bucket = None
  /\ nconstruct = 0
  /\ store = {}

\* C9: when callers run log_artifact at once on an instance whose handle
\* is not injected, then however their steps interleave every upload goes
\* through a handle bound to the bucket of the URI, the handles the callers
\* construct agree on credentials, endpoint and bucket, and no step writes
\* any field of the instance but the handle.
C9_Race ==
  /\ [](self.auth # Unset =>
         /\ \A t \in Callers :
              held[t].via # None
                => /\ held[t].via.bucket
                        = parse_oss_uri(self.artifact_uri).bucket
                   /\ held[t].via.auth = self.auth
                   /\ held[t].via.endpoint = self.oss_endpoint_url
         /\ \A t, u \in Callers :
              (held[t].built # None /\ held[u].built # None)
                => /\ held[t].built.auth = held[u].built.auth
                   /\ held[t].built.endpoint = held[u].built.endpoint
                   /\ held[t].built.bucket = held[u].built.bucket)
  /\ [][/\ self'.artifact_uri = self.artifact_uri
        /\ self'.auth = self.auth
        /\ self'.oss_endpoint_url = self.oss_endpoint_url]_vars

\* Both callers found the handle unset, both constructed one, and both
\* uploads are done.
C9_Witness ==
  /\ self.auth # Unset
  /\ nconstruct = 2
  /\ \A t \in {1, 2} : pc[t] = "done" /\ held[t].built # None
  /\ held[1].built # held[2].built
  /\ held[1].via = held[2].via
  /\ Cardinality(store) = 2

====
